---- MODULE Spec2Model ----
(***************************************************************************)
(* teen_process: the SubProcess lifecycle controller (lib/subprocess.ts),   *)
(* the byte accumulator (lib/circular-buffer.ts) and exec.                  *)
(* Each component has its own variables and its own specification; the     *)
(* variables of the other components stay as they are initially.           *)
(*                                                                         *)
(* One SubProcess instance is modelled together with the child processes   *)
(* it spawns and the notifications Node delivers for them ('error',        *)
(* 'exit', 'close', stream 'data', timers).  Every handler of the source   *)
(* is one action; the 'error' handler is two actions when it awaits the    *)
(* file-system call of formatEnoent.  Listeners registered by the caller   *)
(* on the controller's own events are assumed not to call back into the    *)
(* controller while an event is being emitted.                             *)
(***************************************************************************)
EXTENDS Integers, Sequences, FiniteSets, TLC

\* ---------------------------------------------------------------- bounds
MaxChildren == 2     \* start() calls (each spawns one child)
MaxCalls == 1        \* stop()/join() calls outstanding at one time

Children == 1..MaxChildren

\* ---------------------------------------------------------------- values
NoProc == 0                      \* this.proc === null
NullCode == <<>>                 \* exit code null (killed by a signal)
Code(n) == <<n>>                 \* integer exit code n
NullSignal == "null"
StopSignals == {"SIGTERM"}       \* the signals the caller passes to stop()
ExitPairs == {<<Code(0), NullSignal>>, <<Code(1), NullSignal>>}
                 \cup {<<NullCode, s>> : s \in StopSignals}
CtlListener == 0                 \* the controller's own 'exit' listener

VARIABLES
  proc,           \* this.proc: NoProc or the child referenced
  expectingExit,  \* this.expectingExit
  hasCwd,         \* this.opts.cwd is set
  child,          \* per child: the ChildProcess object as Node presents it
  errh,           \* per child: position of the controller's 'error' handler
  startCall,      \* per child: the start() call that spawned it
  stops,          \* the stop() calls whose timer is armed, by slot
  joins,          \* the pending join() calls, by slot
  emitted,        \* the lifecycle events emitted during the last step, in order
  settled,        \* the stop()/join() promises settled during the last step
  hadOutput       \* per child: an 'output' event has been emitted for it

vars == <<proc, expectingExit, hasCwd, child, errh, startCall, stops, joins,
          emitted, settled, hadOutput>>

\* lib/circular-buffer.ts: one CircularBuffer and what has been added to it
VARIABLES
  buffer,         \* the CircularBuffer: _buf, _size, _maxSize
  written,        \* every byte ever passed to add(), in order
  adds,           \* the number of add() calls so far
  sinceEviction   \* whether an add() has evicted, and the bytes added since

bufferVars == <<buffer, written, adds, sinceEviction>>

\* exec: one call of exec(cmd, args, opts) and the child it spawns
VARIABLES
  opts,           \* the options of the call, after the defaults
  spawnResult,    \* what spawn() meets: "ok" or the errno of its failure
  execProc,       \* the child: its state and the code it terminated with
  stdio,          \* stdoutBuffer and stderrBuffer, by stream name
  childWrote,     \* per stream: every byte the child has written, in order
  timer,          \* the timeout timer
  errorHandler,   \* the position of the async 'error' listener
  execPromise,    \* the promise exec returns
  signalled       \* the signals proc.kill() has delivered to the child

execVars == <<opts, spawnResult, execProc, stdio, childWrote, timer,
              errorHandler, execPromise, signalled>>

\* line reassembly: one output stream of a SubProcess of the revision that
\* keeps the unfinished line of a stream in lastLinePortion
VARIABLES
  lastLinePortion,  \* this.lastLinePortion[streamName]
  lineEvents,       \* the lines emitted for the stream so far, in order
  streamContent,    \* everything the stream has delivered, in order
  chunkCount,       \* the 'data' notifications handled so far
  portionCap,       \* the cap on lastLinePortion
  streamEnded,      \* handleLastLines() has run at the child's exit
  stopFlushed,      \* stop() has run handleLastLines() before the exit
  streamClosed      \* the stream has ended: no 'data' will follow

lineVars == <<lastLinePortion, lineEvents, streamContent, chunkCount,
              portionCap, streamEnded, stopFlushed, streamClosed>>

\* 'output' events: handleOutput of one start() call of a SubProcess, with
\* what each event carries
VARIABLES
  isBuffer,       \* this.opts.isBuffer
  detector,       \* the closure's detector: "default", "function" or "null"
  startPromise,   \* the promise of the start() call and its two timers
  delivered,      \* the 'data' notifications so far: stream and chunk
  outputEvents    \* the 'output' events emitted so far: stdout and stderr

outputVars == <<isBuffer, detector, startPromise, delivered, outputEvents>>

\* the variables of the components other than SubProcess
otherVars == <<bufferVars, execVars, lineVars, outputVars>>

\* for each other component, the variables of the rest
bufferRest == <<vars, execVars, lineVars, outputVars>>
execRest == <<vars, bufferVars, lineVars, outputVars>>
lineRest == <<vars, bufferVars, execVars, outputVars>>
outputRest == <<vars, bufferVars, execVars, lineVars>>

allVars == <<vars, otherVars>>

\* ------------------------------------------------------- promise settling
\* resolve()/reject() of a promise: only the first call has an effect.
SettleOverwrite(call, outcome, reason) ==
  [call EXCEPT !.outcome = outcome, !.reason = reason]

Settle(call, outcome, reason) ==
  IF call.outcome = "pending"
    THEN [call EXCEPT !.outcome = outcome, !.reason = reason]
    ELSE call

\* ------------------------------------------------------------- accessors
isRunning == proc # NoProc

\* the ChildProcess still has its handle: until Node has delivered its
\* 'exit' or 'error' notification
HasHandle(ch, c) == ch[c].st \in {"alive", "spawnfail"}

pid == IF proc # NoProc /\ child[proc].st \notin {"spawnfail", "failed"}
         THEN proc ELSE NoProc

\* a process.nextTick callback (the spawn error) is queued: it runs before
\* any timer or I/O callback, but after the caller's synchronous code
TickPending == \E c \in Children : child[c].st = "spawnfail"

\* this.proc?.kill(sig): the signal is sent when the child still has its
\* handle.  kills is the set of signals the controller has sent so far.
Kill(ch, c, sig) ==
  IF c # NoProc /\ HasHandle(ch, c)
    THEN [ch EXCEPT ![c].kills = @ \cup {sig}]
    ELSE ch

UnspawnedChild ==
  [st |-> "unspawned", err |-> "none", exitL |-> <<>>, closeL |-> <<>>,
   kills |-> {}]

FreeStop ==
  [target |-> NoProc, sig |-> "none", outcome |-> "free", reason |-> "none"]

FreeJoin == [target |-> NoProc, allowed |-> {}, outcome |-> "free"]

NoStart ==
  [det |-> "none", active |-> FALSE, outcome |-> "none", reason |-> "none",
   delayT |-> "off", timeoutT |-> "off"]

Init ==
  /\ proc = NoProc
  /\ expectingExit = FALSE
  /\ hasCwd \in BOOLEAN
  /\ child = [c \in Children |-> UnspawnedChild]
  /\ errh = [c \in Children |-> "idle"]
  /\ startCall = [c \in Children |-> NoStart]
  /\ stops = [i \in 1..MaxCalls |-> FreeStop]
  /\ joins = [j \in 1..MaxCalls |-> FreeJoin]
  /\ emitted = <<>>
  /\ settled = <<>>
  /\ hadOutput = [c \in Children |-> FALSE]

\* ------------------------------------------------------------ start()
\* lib/subprocess.ts 120-134: which detector a start() call runs with.
\* "default" is genericStartDetector, "function" a caller's predicate,
\* "number" a numeric delay (detector = null).
DetectorKinds == {"default", "number", "function"}
SpawnResults == {"ok", "ENOENT", "EACCES"}

\* start(startDetector, timeoutMs): spawns child c and arms the timers.
\* The spawn result is Node's: "ok", or an error that Node reports with an
\* 'error' notification on the next tick.
StartNumericKeepsDetector(c, det, timed, res) ==
  /\ child[c].st = "unspawned"
  /\ \A d \in Children : d < c => child[d].st # "unspawned"
  /\ proc' = c
  /\ child' = [child EXCEPT ![c] =
       [@ EXCEPT !.st = IF res = "ok" THEN "alive" ELSE "spawnfail",
                 !.err = IF res = "ok" THEN "none" ELSE res,
                 !.exitL = <<CtlListener>>]]
  /\ startCall' = [startCall EXCEPT ![c] =
       [det |-> det, active |-> TRUE, outcome |-> "pending",
        reason |-> "none",
        delayT |-> IF det = "number" THEN "armed" ELSE "off",
        timeoutT |-> IF timed THEN "armed" ELSE "off"]]
  /\ emitted' = <<>>
  /\ settled' = <<>>
  /\ UNCHANGED <<expectingExit, hasCwd, errh, stops, joins, hadOutput, otherVars>>

Start(c, det, timed, res) ==
  /\ child[c].st = "unspawned"
  /\ \A d \in Children : d < c => child[d].st # "unspawned"
  /\ proc' = c
  /\ child' = [child EXCEPT ![c] =
       [@ EXCEPT !.st = IF res = "ok" THEN "alive" ELSE "spawnfail",
                 !.err = IF res = "ok" THEN "none" ELSE res,
                 !.exitL = <<CtlListener>>]]
  /\ startCall' = [startCall EXCEPT ![c] =
       [det |-> det, active |-> det # "number", outcome |-> "pending",
        reason |-> "none",
        delayT |-> IF det = "number" THEN "armed" ELSE "off",
        timeoutT |-> IF timed THEN "armed" ELSE "off"]]
  /\ emitted' = <<>>
  /\ settled' = <<>>
  /\ UNCHANGED <<expectingExit, hasCwd, errh, stops, joins, hadOutput, otherVars>>

\* handleOutput (153-169) for one chunk on one stream of child c; r is what
\* a caller's predicate does with the fragment.
DetectorResults == {"true", "false", "throw"}

HandleOutputStartSwallowsThrow(call, r) ==
  IF ~call.active THEN call
  ELSE IF call.det = "default" \/ r = "true"
    THEN Settle([call EXCEPT !.active = FALSE], "resolved", "detector")
  ELSE call

HandleOutputStart(call, r) ==
  IF ~call.active THEN call
  ELSE IF call.det = "default" \/ r = "true"
    THEN Settle([call EXCEPT !.active = FALSE], "resolved", "detector")
  ELSE IF r = "throw"
    THEN Settle(call, "rejected", "detectorthrow")
  ELSE call

StreamDataNoOutputEvent(c, stream, r) ==
  /\ ~TickPending
  /\ child[c].st \in {"alive", "exited"}
  /\ startCall[c].det # "function" => r = "true"
  /\ startCall' = [startCall EXCEPT ![c] = HandleOutputStart(@, r)]
  /\ UNCHANGED hadOutput
  /\ emitted' = <<>>
  /\ settled' = <<>>
  /\ UNCHANGED <<proc, expectingExit, hasCwd, child, errh, stops, joins,
               otherVars>>

StreamDataAfterClose(c, stream, r) ==
  /\ ~TickPending
  /\ child[c].st \in {"alive", "exited", "closed"}
  /\ startCall[c].det # "function" => r = "true"
  /\ startCall' = [startCall EXCEPT ![c] = HandleOutputStart(@, r)]
  /\ hadOutput' = [hadOutput EXCEPT ![c] = TRUE]
  /\ emitted' = <<>>
  /\ settled' = <<>>
  /\ UNCHANGED <<proc, expectingExit, hasCwd, child, errh, stops, joins,
               otherVars>>

StreamData(c, stream, r) ==
  /\ ~TickPending
  /\ child[c].st \in {"alive", "exited"}
  /\ startCall[c].det # "function" => r = "true"
  /\ startCall' = [startCall EXCEPT ![c] = HandleOutputStart(@, r)]
  /\ hadOutput' = [hadOutput EXCEPT ![c] = TRUE]
  /\ emitted' = <<>>
  /\ settled' = <<>>
  /\ UNCHANGED <<proc, expectingExit, hasCwd, child, errh, stops, joins,
               otherVars>>

\* 238-240: setTimeout(() => resolve(), startDelay)
StartDelayFires(c) ==
  /\ ~TickPending
  /\ startCall[c].delayT = "armed"
  /\ startCall' = [startCall EXCEPT ![c] =
       Settle([@ EXCEPT !.delayT = "off"], "resolved", "delay")]
  /\ emitted' = <<>>
  /\ settled' = <<>>
  /\ UNCHANGED <<proc, expectingExit, hasCwd, child, errh, stops, joins,
               hadOutput, otherVars>>

\* 242-246: setTimeout(() => reject(new Error('The process did not start
\* within ...')), timeoutMs)
StartTimeoutFiresAndKills(c) ==
  /\ ~TickPending
  /\ startCall[c].timeoutT = "armed"
  /\ startCall' = [startCall EXCEPT ![c] =
       Settle([@ EXCEPT !.timeoutT = "off"], "rejected", "timeout")]
  /\ child' = Kill(child, proc, "SIGTERM")
  /\ emitted' = <<>>
  /\ settled' = <<>>
  /\ UNCHANGED <<proc, expectingExit, hasCwd, errh, stops, joins,
               hadOutput, otherVars>>

StartTimeoutFires(c) ==
  /\ ~TickPending
  /\ startCall[c].timeoutT = "armed"
  /\ startCall' = [startCall EXCEPT ![c] =
       Settle([@ EXCEPT !.timeoutT = "off"], "rejected", "timeout")]
  /\ emitted' = <<>>
  /\ settled' = <<>>
  /\ UNCHANGED <<proc, expectingExit, hasCwd, child, errh, stops, joins,
               hadOutput, otherVars>>

\* ------------------------------------------------ termination ('exit')
Event(name, c, code, sig) ==
  [name |-> name, child |-> c, code |-> code, signal |-> sig]

\* the settling of a stop() or join() promise, as the caller observes it
Settlement(call, target, outcome, reason, code) ==
  [call |-> call, target |-> target, outcome |-> outcome, reason |-> reason,
   code |-> code]

\* 228-231: the classified event of a termination
ClassifiedEventFalsyCode(expecting, code) ==
  IF expecting THEN "stop"
  ELSE IF code \in {Code(0), NullCode} THEN "end"
  ELSE "die"

ClassifiedEvent(expecting, code) ==
  IF expecting THEN "stop"
  ELSE IF code = Code(0) THEN "end"
  ELSE "die"

\* 225-236: the controller's own 'exit' listener, for child c.  s is the
\* part of the state the 'exit' listeners work on.
ExitHandlerNoExitEvent(s, c, code, sig) ==
  [s EXCEPT
     !.emitted = s.emitted \o
        <<Event(ClassifiedEvent(s.expectingExit, code), c, code, sig)>>,
     !.proc = NoProc,
     !.expectingExit = FALSE]

ExitHandlerKeepsExpecting(s, c, code, sig) ==
  [s EXCEPT
     !.emitted = s.emitted \o
        <<Event("exit", c, code, sig),
          Event(ClassifiedEvent(s.expectingExit, code), c, code, sig)>>,
     !.proc = NoProc]

ExitHandler(s, c, code, sig) ==
  [s EXCEPT
     !.emitted = s.emitted \o
        <<Event("exit", c, code, sig),
          Event(ClassifiedEvent(s.expectingExit, code), c, code, sig)>>,
     !.proc = NoProc,
     !.expectingExit = FALSE]

\* 311-317: the 'exit' listener of the join() call in slot j
JoinHandler(s, j, c, code) ==
  [s EXCEPT
     !.settled = Append(s.settled,
        IF code # NullCode /\ code[1] \notin s.joins[j].allowed
          THEN Settlement("join", c, "rejected", "exitcode", code)
          ELSE Settlement("join", c, "resolved", "exit", code)),
     !.joins[j] = FreeJoin]

\* EventEmitter.emit('exit', code, signal) on the child: its listeners run
\* in the order they were registered.
RECURSIVE RunExitListeners(_, _, _, _, _)
RunExitListeners(ls, s, c, code, sig) ==
  IF ls = <<>> THEN s
  ELSE RunExitListeners(Tail(ls),
         IF Head(ls) = CtlListener
           THEN ExitHandler(s, c, code, sig)
           ELSE JoinHandler(s, Head(ls), c, code),
         c, code, sig)

\* Node's 'exit' notification for child c, which ended with (code, sig).
\* 'exit' is emitted once per child: its listeners are inert afterwards.
ProcExit(c, code, sig) ==
  /\ ~TickPending
  /\ child[c].st = "alive"
  /\ LET s == RunExitListeners(child[c].exitL,
                [proc |-> proc, expectingExit |-> expectingExit,
                 emitted |-> <<>>, joins |-> joins, settled |-> <<>>],
                c, code, sig)
     IN /\ proc' = s.proc
        /\ expectingExit' = s.expectingExit
        /\ emitted' = s.emitted
        /\ joins' = s.joins
        /\ settled' = s.settled
  /\ child' = [child EXCEPT ![c].st = "exited", ![c].exitL = <<>>]
  /\ UNCHANGED <<hasCwd, errh, startCall, stops, hadOutput, otherVars>>

\* Node's 'close' notification for child c: after 'exit' (or 'error') and
\* the end of its streams.  279: each stop() waiting on c resolves; its
\* timer stays armed.
RECURSIVE ResolveStops(_, _)
ResolveStops(ls, s) ==
  IF ls = <<>> THEN s
  ELSE ResolveStops(Tail(ls),
         [s EXCEPT
            !.stops[Head(ls)] = Settle(@, "resolved", "close"),
            !.settled =
               IF s.stops[Head(ls)].outcome = "pending"
                 THEN Append(@, Settlement("stop", s.stops[Head(ls)].target,
                                           "resolved", "close", NullCode))
                 ELSE @])

ProcClose(c) ==
  /\ ~TickPending
  /\ child[c].st \in {"exited", "failed"}
  /\ child' = [child EXCEPT ![c].st = "closed", ![c].closeL = <<>>]
  /\ LET s == ResolveStops(child[c].closeL,
                           [stops |-> stops, settled |-> <<>>])
     IN /\ stops' = s.stops
        /\ settled' = s.settled
  /\ emitted' = <<>>
  /\ UNCHANGED <<proc, expectingExit, hasCwd, errh, startCall, joins,
               hadOutput, otherVars>>

\* ---------------------------------------------------- spawn 'error'
\* 172-173: the synchronous head of the 'error' listener.  It works on
\* this.proc as it is when the notification arrives.
ErrorHandlerHead(ch) ==
  IF proc = NoProc THEN ch
  ELSE Kill([ch EXCEPT ![proc].exitL = <<>>], proc, "SIGINT")

\* lib/helpers.ts 23-37: formatEnoent awaits fs.stat only when cwd is given;
\* 176: it is called only for ENOENT.
AwaitsStat(c) == child[c].err = "ENOENT" /\ hasCwd

\* 179-182: reject(error); this.proc = null
ErrorHandlerTail(c) ==
  /\ startCall' = [startCall EXCEPT ![c] = Settle(@, "rejected", "spawnerror")]
  /\ proc' = NoProc

\* The 'error' notification of child c (next tick after the failed spawn).
ProcError(c) ==
  /\ child[c].st = "spawnfail"
  /\ child' = [ErrorHandlerHead(child) EXCEPT ![c].st = "failed",
                                             ![c].err = "none"]
  /\ IF AwaitsStat(c)
       THEN /\ errh' = [errh EXCEPT ![c] = "awaiting"]
            /\ UNCHANGED <<proc, startCall>>
       ELSE /\ UNCHANGED errh
            /\ ErrorHandlerTail(c)
  /\ emitted' = <<>>
  /\ settled' = <<>>
  /\ UNCHANGED <<expectingExit, hasCwd, stops, joins, hadOutput, otherVars>>

\* fs.stat has completed: the 'error' listener resumes after its await.
ProcErrorResume(c) ==
  /\ ~TickPending
  /\ errh[c] = "awaiting"
  /\ errh' = [errh EXCEPT ![c] = "idle"]
  /\ ErrorHandlerTail(c)
  /\ emitted' = <<>>
  /\ settled' = <<>>
  /\ UNCHANGED <<expectingExit, hasCwd, child, stops, joins, hadOutput, otherVars>>

\* ------------------------------------------------------------ stop()
FreeStopSlots == {i \in 1..MaxCalls : stops[i].outcome = "free"}

FreeJoinSlots == {j \in 1..MaxCalls : joins[j].outcome = "free"}

\* the caller has fewer than MaxCalls stop()/join() calls outstanding
MayCall ==
  Cardinality(FreeStopSlots) + Cardinality(FreeJoinSlots) > MaxCalls

\* 274-286.  The call takes a free slot i; the slot is held until the
\* call's timer has fired.
StopWithoutGuard(i, sig) ==
  /\ MayCall
  /\ i \in FreeStopSlots
  /\ \A k \in FreeStopSlots : i <= k
  /\ IF ~isRunning
       THEN /\ settled' = <<Settlement("stop", NoProc, "rejected",
                                       "notrunning", NullCode)>>
            /\ expectingExit' = TRUE
            /\ UNCHANGED <<stops, child>>
       ELSE /\ settled' = <<>>
            /\ stops' = [stops EXCEPT ![i] =
                 [target |-> proc, sig |-> sig, outcome |-> "pending",
                  reason |-> "none"]]
            /\ expectingExit' = TRUE
            /\ child' = Kill([child EXCEPT ![proc].closeL = Append(@, i)],
                             proc, sig)
  /\ emitted' = <<>>
  /\ UNCHANGED <<proc, hasCwd, errh, startCall, joins, hadOutput, otherVars>>

Stop(i, sig) ==
  /\ MayCall
  /\ i \in FreeStopSlots
  /\ \A k \in FreeStopSlots : i <= k
  /\ IF ~isRunning
       THEN /\ settled' = <<Settlement("stop", NoProc, "rejected",
                                       "notrunning", NullCode)>>
            /\ UNCHANGED <<stops, expectingExit, child>>
       ELSE /\ settled' = <<>>
            /\ stops' = [stops EXCEPT ![i] =
                 [target |-> proc, sig |-> sig, outcome |-> "pending",
                  reason |-> "none"]]
            /\ expectingExit' = TRUE
            /\ child' = Kill([child EXCEPT ![proc].closeL = Append(@, i)],
                             proc, sig)
  /\ emitted' = <<>>
  /\ UNCHANGED <<proc, hasCwd, errh, startCall, joins, hadOutput, otherVars>>

\* 282-284: the timer of the stop() call in slot i fires.  After it the
\* call's 'close' listener has no effect, and the slot is free again.
StopTimeoutFires(i) ==
  /\ ~TickPending
  /\ stops[i].outcome # "free"
  /\ settled' =
       IF Settle(stops[i], "rejected", "timeout").outcome = "rejected"
         THEN <<Settlement("stop", stops[i].target, "rejected", "timeout",
                           NullCode)>>
         ELSE <<>>
  /\ stops' = [stops EXCEPT ![i] = FreeStop]
  /\ child' = [child EXCEPT ![stops[i].target].closeL =
                 SelectSeq(@, LAMBDA k : k # i)]
  /\ emitted' = <<>>
  /\ UNCHANGED <<proc, expectingExit, hasCwd, errh, startCall, joins,
               hadOutput, otherVars>>

\* ------------------------------------------------------------ join()
AllowedSets == {{0}, {1}}

\* 305-319.  The call takes a free slot j, held while the call is pending.
Join(j, allowed) ==
  /\ MayCall
  /\ j \in FreeJoinSlots
  /\ \A k \in FreeJoinSlots : j <= k
  /\ IF ~isRunning
       THEN /\ settled' = <<Settlement("join", NoProc, "rejected",
                                       "notrunning", NullCode)>>
            /\ UNCHANGED <<joins, child>>
       ELSE /\ settled' = <<>>
            /\ joins' = [joins EXCEPT ![j] =
                 [target |-> proc, allowed |-> allowed, outcome |-> "pending"]]
            /\ child' = [child EXCEPT ![proc].exitL = Append(@, j)]
  /\ emitted' = <<>>
  /\ UNCHANGED <<proc, expectingExit, hasCwd, errh, startCall, stops,
               hadOutput, otherVars>>

\* ------------------------------------------------------ specification
Next ==
  \/ \E c \in Children, det \in DetectorKinds, timed \in BOOLEAN,
        res \in SpawnResults : Start(c, det, timed, res)
  \/ \E c \in Children, stream \in {"stdout", "stderr"},
        r \in DetectorResults : StreamData(c, stream, r)
  \/ \E c \in Children : StartDelayFires(c)
  \/ \E c \in Children : StartTimeoutFires(c)
  \/ \E c \in Children, p \in ExitPairs : ProcExit(c, p[1], p[2])
  \/ \E c \in Children : ProcClose(c)
  \/ \E c \in Children : ProcError(c)
  \/ \E c \in Children : ProcErrorResume(c)
  \/ \E i \in 1..MaxCalls, sig \in StopSignals : Stop(i, sig)
  \/ \E i \in 1..MaxCalls : StopTimeoutFires(i)
  \/ \E j \in 1..MaxCalls, allowed \in AllowedSets : Join(j, allowed)

\* ================================================ lib/circular-buffer.ts
MaxCap == 10         \* largest maxSize of a CircularBuffer
MaxChunk == 12       \* largest chunk passed to add(), in bytes
MaxAdds == 3         \* add() calls on one CircularBuffer

\* 2: THRESHOLD = 0.15, in percent
THRESHOLD == 15

\* 9-13: new CircularBuffer(maxSize)
CircularBuffer(maxSize) == [buf |-> <<>>, size |-> 0, maxSize |-> maxSize]

\* 15-21: the size and count getters
size(self) == self.size

count(self) == Len(self.buf)

\* Buffer.concat(list)
RECURSIVE concat(_)
concat(list) ==
  IF list = <<>> THEN <<>> ELSE Head(list) \o concat(Tail(list))

\* 30-32
value(self) == concat(self.buf)

\* Buffer.subarray(start), for 0 <= start: the bytes from offset start on,
\* none when start is beyond the end
subarrayFromEnd(b, start) ==
  SubSeq(b, 1, Len(b) - start)

subarray(b, start) ==
  SubSeq(b, start + 1, Len(b))

\* 42: this._size - this._maxSize + Math.trunc(this._maxSize * THRESHOLD)
expectedSizeToShiftNoThreshold(self) ==
  self.size - self.maxSize

expectedSizeToShift(self) ==
  self.size - self.maxSize + (self.maxSize * THRESHOLD) \div 100

\* 44-47: the loop counting the leading chunks to drop; the result is
\* <<numberOfItemsToShift, actualShiftedSize>>
RECURSIVE shiftLoop(_, _, _, _)
shiftLoop(buf, numberOfItemsToShift, actualShiftedSize, expected) ==
  IF numberOfItemsToShift < Len(buf) - 1 /\ actualShiftedSize <= expected
    THEN shiftLoop(buf, numberOfItemsToShift + 1,
                   actualShiftedSize + Len(buf[numberOfItemsToShift + 1]),
                   expected)
    ELSE <<numberOfItemsToShift, actualShiftedSize>>

\* 34-59: _align()
alignNever(self) == self

alignNoGuard(self) ==
  LET expected == expectedSizeToShift(self)
      loop == shiftLoop(self.buf, 0, 0, expected)
      spliced ==
        IF loop[1] > 0
          THEN [self EXCEPT !.buf = SubSeq(@, loop[1] + 1, Len(@)),
                            !.size = @ - loop[2]]
          ELSE self
  IN IF loop[2] < expected /\ spliced.buf # <<>>
       THEN [spliced EXCEPT !.buf[1] = subarray(@, expected - loop[2]),
                            !.size = @ - (expected - loop[2])]
       ELSE spliced

alignNoSlice(self) ==
  IF self.size <= self.maxSize THEN self
  ELSE
    LET expected == expectedSizeToShift(self)
        loop == shiftLoop(self.buf, 0, 0, expected)
    IN IF loop[1] > 0
         THEN [self EXCEPT !.buf = SubSeq(@, loop[1] + 1, Len(@)),
                           !.size = @ - loop[2]]
         ELSE self

align(self) ==
  IF self.size <= self.maxSize THEN self
  ELSE
    LET expected == expectedSizeToShift(self)
        loop == shiftLoop(self.buf, 0, 0, expected)
        numberOfItemsToShift == loop[1]
        actualShiftedSize == loop[2]
        spliced ==
          IF numberOfItemsToShift > 0
            THEN [self EXCEPT
                    !.buf = SubSeq(@, numberOfItemsToShift + 1, Len(@)),
                    !.size = @ - actualShiftedSize]
            ELSE self
        remainderToShift == expected - actualShiftedSize
    IN IF actualShiftedSize < expected
         THEN [spliced EXCEPT
                 !.buf[1] = subarray(@, remainderToShift),
                 !.size = @ - remainderToShift]
         ELSE spliced

\* 23-28: add(item)
addKeepsSize(self, item) ==
  align([self EXCEPT !.buf = Append(@, item)])

add(self, item) ==
  align([self EXCEPT !.buf = Append(@, item), !.size = @ + Len(item)])

\* no CircularBuffer is in use
BufferIdle ==
  /\ buffer = CircularBuffer(0)
  /\ written = <<>>
  /\ adds = 0
  /\ sinceEviction = [evicted |-> FALSE, bytes |-> 0]

\* a CircularBuffer has been constructed with some maxSize
InitBuffer ==
  /\ Init /\ ~hasCwd
  /\ buffer \in {CircularBuffer(maxSize) : maxSize \in 0..MaxCap}
  /\ written = <<>>
  /\ adds = 0
  /\ sinceEviction = [evicted |-> FALSE, bytes |-> 0]

\* the chunk of n bytes that follows what has been written: each byte is
\* identified by its offset in the stream
NextChunk(n) == [i \in 1..n |-> Len(written) + i]

\* buffer.add(item) with a chunk of n bytes
Add(n) ==
  /\ adds < MaxAdds
  /\ buffer' = add(buffer, NextChunk(n))
  /\ written' = written \o NextChunk(n)
  /\ adds' = adds + 1
  /\ sinceEviction' =
       IF size(buffer) + n > buffer.maxSize
         THEN [evicted |-> TRUE, bytes |-> 0]
         ELSE [sinceEviction EXCEPT !.bytes = @ + n]
  /\ UNCHANGED bufferRest

NextBuffer == \E n \in 0..MaxChunk : Add(n)


\* ================================================================ exec
MaxExecCap == 2      \* largest maxStdoutBufferSize / maxStderrBufferSize
MaxExecChunk == 2    \* largest chunk a stream delivers, in bytes
MaxExecData == 2     \* 'data' notifications during one exec call

StreamNames == {"stdout", "stderr"}
KillSignals == {"SIGTERM", "SIGINT"}
\* the exit code 'close' carries after a failed spawn: the negative errno
Errno(e) == IF e = "ENOENT" THEN Code(-2) ELSE Code(-13)

\* how a child that was spawned terminates
ExecExitCodes == {Code(0), Code(1), NullCode}

\* 59-72: the options the model varies; timeout is undefined unless given
ExecOptions ==
  [timeout : BOOLEAN, killSignal : KillSignals, ignoreOutput : BOOLEAN,
   maxStdoutBufferSize : 0..MaxExecCap, maxStderrBufferSize : 0..MaxExecCap]

\* 74-75: the two buffers
NewStdio(o) ==
  [s \in StreamNames |->
     CircularBuffer(IF s = "stdout" THEN o.maxStdoutBufferSize
                                    ELSE o.maxStderrBufferSize)]

\* everything the child has written to stream s
Wrote(s) == concat(childWrote[s])

\* The promise exec returns.  fields: the value it settled with has the
\* properties stdout, stderr and code (the source sets the three together
\* or none of them); wrote: what the child had written when it settled.
PendingPromise ==
  [outcome |-> "pending", reason |-> "none", fields |-> FALSE,
   stdout |-> <<>>, stderr |-> <<>>, code |-> NullCode,
   wrote |-> [s \in StreamNames |-> <<>>]]

\* resolve()/reject(): the first call wins
SettleExec(p, outcome, reason, out, code) ==
  IF p.outcome = "pending"
    THEN [outcome |-> outcome, reason |-> reason, fields |-> out.fields,
          stdout |-> out.stdout, stderr |-> out.stderr, code |-> code,
          wrote |-> [s \in StreamNames |-> Wrote(s)]]
    ELSE p

\* 79-83, 88, 99: an Error without stdout, stderr and exit code
PlainError == [fields |-> FALSE, stdout |-> <<>>, stderr |-> <<>>]

\* 119-127: getStdio(), the buffers' values (decoding is not modelled)
getStdio ==
  [fields |-> TRUE, stdout |-> value(stdio["stdout"]),
   stderr |-> value(stdio["stderr"])]

ExecIdle ==
  /\ opts = [timeout |-> FALSE, killSignal |-> "SIGTERM",
             ignoreOutput |-> FALSE, maxStdoutBufferSize |-> 1,
             maxStderrBufferSize |-> 1]
  /\ spawnResult = "ok"
  /\ execProc = [st |-> "none", code |-> NullCode]
  /\ stdio = NewStdio(opts)
  /\ childWrote = [s \in StreamNames |-> <<>>]
  /\ timer = "none"
  /\ errorHandler = "idle"
  /\ execPromise = PendingPromise
  /\ signalled = <<>>

\* 73-76, 146-156: the state when the executor of the promise has run:
\* the child is spawned (or the spawn has failed and 'error' is due on the
\* next tick), the buffers are empty and the timer is armed if opts.timeout
InitExec ==
  /\ Init /\ ~hasCwd
  /\ BufferIdle
  /\ opts \in ExecOptions
  /\ spawnResult \in SpawnResults
  /\ execProc = [st |-> IF spawnResult = "ok" THEN "spawned" ELSE "spawnfail",
                 code |-> NullCode]
  /\ stdio = NewStdio(opts)
  /\ childWrote = [s \in StreamNames |-> <<>>]
  /\ timer = IF opts.timeout THEN "armed" ELSE "none"
  /\ errorHandler = "idle"
  /\ execPromise = PendingPromise
  /\ signalled = <<>>

\* the streams deliver until 'close'
StreamsOpen == execProc.st \in {"spawned", "exited"}

\* the 'data' notifications so far
DataCount == Len(childWrote["stdout"]) + Len(childWrote["stderr"])

\* the chunk of n bytes that follows what stream s has delivered: each byte
\* is identified by its offset in the stream
ExecChunk(s, n) == [i \in 1..n |-> Len(Wrote(s)) + i]

\* 102-113: the 'data' listener of a stream
handleStreamDataKeepsAll(s, chunk) ==
  [stdio EXCEPT ![s] = [@ EXCEPT !.buf = Append(@, chunk),
                                 !.size = @ + Len(chunk)]]

handleStreamData(s, chunk) ==
  IF opts.ignoreOutput THEN stdio
  ELSE [stdio EXCEPT ![s] = add(@, chunk)]

\* a 'data' notification of stream s with a chunk of n bytes
ExecData(s, n) ==
  /\ StreamsOpen
  /\ DataCount < MaxExecData
  /\ stdio' = handleStreamData(s, ExecChunk(s, n))
  /\ childWrote' = [childWrote EXCEPT ![s] = Append(@, ExecChunk(s, n))]
  /\ UNCHANGED <<opts, spawnResult, execProc, timer, errorHandler,
                 execPromise, signalled, execRest>>

\* 86-90, 98-100: an 'error' notification of stdin, stdout or stderr
ExecStreamError(s) ==
  /\ StreamsOpen
  /\ execPromise' = SettleExec(execPromise, "rejected", s, PlainError, NullCode)
  /\ UNCHANGED <<opts, spawnResult, execProc, stdio, childWrote, timer,
                 errorHandler, signalled, execRest>>

\* the child terminates; exec has no 'exit' listener
ExecProcExit(code) ==
  /\ execProc.st = "spawned"
  /\ execProc' = [st |-> "exited", code |-> code]
  /\ UNCHANGED <<opts, spawnResult, stdio, childWrote, timer, errorHandler,
                 execPromise, signalled, execRest>>

\* 78-84: the 'error' listener up to its await, or to its end when the
\* error is not ENOENT.  The notification comes on the tick after spawn().
ExecProcError ==
  /\ execProc.st = "spawnfail"
  /\ execProc' = [st |-> "errored", code |-> Errno(spawnResult)]
  /\ IF spawnResult = "ENOENT"
       THEN /\ errorHandler' = "awaiting"
            /\ UNCHANGED execPromise
       ELSE /\ errorHandler' = "done"
            /\ execPromise' = SettleExec(execPromise, "rejected", "spawnerror",
                                         PlainError, NullCode)
  /\ UNCHANGED <<opts, spawnResult, stdio, childWrote, timer, signalled,
                 execRest>>

\* 83: the listener resumes when formatEnoent has returned.  Node emits
\* 'close' from the call that emits 'error' for a failed spawn, so the
\* 'close' listener has run by then.
ExecErrorResume ==
  /\ errorHandler = "awaiting"
  /\ execProc.st = "closed"
  /\ errorHandler' = "done"
  /\ execPromise' = SettleExec(execPromise, "rejected", "notfound",
                               PlainError, NullCode)
  /\ UNCHANGED <<opts, spawnResult, execProc, stdio, childWrote, timer,
                 signalled, execRest>>

\* 129-144: the 'close' listener
ExecProcCloseAlwaysResolves ==
  /\ execProc.st \in {"exited", "errored"}
  /\ execProc' = [execProc EXCEPT !.st = "closed"]
  /\ timer' = IF timer = "armed" THEN "cleared" ELSE timer
  /\ execPromise' = SettleExec(execPromise, "resolved", "close", getStdio,
                               execProc.code)
  /\ UNCHANGED <<opts, spawnResult, stdio, childWrote, errorHandler,
                 signalled, execRest>>

ExecProcCloseKeepsTimer ==
  /\ execProc.st \in {"exited", "errored"}
  /\ execProc' = [execProc EXCEPT !.st = "closed"]
  /\ execPromise' =
       IF execProc.code = Code(0)
         THEN SettleExec(execPromise, "resolved", "close", getStdio, Code(0))
         ELSE SettleExec(execPromise, "rejected", "close", getStdio,
                         execProc.code)
  /\ UNCHANGED <<opts, spawnResult, stdio, childWrote, errorHandler,
                 signalled, timer, execRest>>

ExecProcClose ==
  /\ execProc.st \in {"exited", "errored"}
  /\ execProc' = [execProc EXCEPT !.st = "closed"]
  /\ timer' = IF timer = "armed" THEN "cleared" ELSE timer
  /\ execPromise' =
       IF execProc.code = Code(0)
         THEN SettleExec(execPromise, "resolved", "close", getStdio, Code(0))
         ELSE SettleExec(execPromise, "rejected", "close", getStdio,
                         execProc.code)
  /\ UNCHANGED <<opts, spawnResult, stdio, childWrote, errorHandler,
                 signalled, execRest>>

\* proc.kill(signal): the signal reaches the child only while it has not
\* terminated
ExecKill(sig) == IF execProc.st = "spawned" THEN Append(signalled, sig)
                 ELSE signalled

\* 146-156: the timer fires; it was set after spawn() and cannot fire
\* before the 'error' and 'close' of a failed spawn, which clear it
ExecTimeoutNoKill ==
  /\ timer = "armed"
  /\ StreamsOpen
  /\ timer' = "fired"
  /\ execPromise' = SettleExec(execPromise, "rejected", "timeout", getStdio,
                               NullCode)
  /\ UNCHANGED <<opts, spawnResult, execProc, stdio, childWrote,
                 errorHandler, signalled, execRest>>

ExecTimeout ==
  /\ timer = "armed"
  /\ StreamsOpen
  /\ timer' = "fired"
  /\ execPromise' = SettleExec(execPromise, "rejected", "timeout", getStdio,
                               NullCode)
  /\ signalled' = ExecKill(opts.killSignal)
  /\ UNCHANGED <<opts, spawnResult, execProc, stdio, childWrote,
                 errorHandler, execRest>>

NextExec ==
  \/ \E s \in StreamNames, n \in 1..MaxExecChunk : ExecData(s, n)
  \/ \E s \in StreamNames \cup {"stdin"} : ExecStreamError(s)
  \/ \E code \in ExecExitCodes : ExecProcExit(code)
  \/ ExecProcError
  \/ ExecErrorResume
  \/ ExecProcClose
  \/ ExecTimeout

\* ===================================================== line reassembly
MaxContent == 5      \* longest stream content, in characters
MaxLineChunk == 3    \* longest chunk of a 'data' notification
MaxLineCap == 3      \* largest scaled-down cap on lastLinePortion

\* 207: MAX_LINE_PORTION_LENGTH = 0xFFFF
MAX_LINE_PORTION_LENGTH == 65535

\* The handler is run with the cap of the source and with caps small
\* enough for the bounded content to reach them.
PortionCaps == (1..MaxLineCap) \cup {MAX_LINE_PORTION_LENGTH}

NL == "\n"
Chars == {"a", "b", NL}

\* the non-empty strings a 'data' notification may carry
Chunks == UNION {[1..n -> Chars] : n \in 1..MaxLineChunk}

\* 318: String.prototype.split('\n')
RECURSIVE split(_)
split(str) ==
  IF \A i \in 1..Len(str) : str[i] # NL THEN <<str>>
  ELSE LET i == CHOOSE k \in 1..Len(str) :
                  str[k] = NL /\ \A j \in 1..(k - 1) : str[j] # NL
       IN <<SubSeq(str, 1, i - 1)>> \o split(SubSeq(str, i + 1, Len(str)))

\* 209-214: cutSuffix
cutSuffixKeepsHead(str, suffixLength) ==
  IF Len(str) > suffixLength THEN SubSeq(str, 1, suffixLength) ELSE str

cutSuffix(str, suffixLength) ==
  IF Len(str) > suffixLength
    THEN SubSeq(str, Len(str) - suffixLength + 1, Len(str))
    ELSE str

\* 316-334: the body of the loop of handleOutput for one stream: the new
\* lastLinePortion and the resultLines emitted
handleStreamLinesForgetsPortion(portion, streamData, cap) ==
  IF streamData = <<>> THEN [portion |-> portion, lines |-> <<>>]
  ELSE LET lines == split(streamData) IN
       IF Len(lines) > 1
         THEN [portion |-> cutSuffix(lines[Len(lines)], cap),
               lines |-> SubSeq(lines, 1, Len(lines) - 1)]
         ELSE [portion |-> cutSuffix(lines[1], cap), lines |-> <<>>]

handleStreamLines(portion, streamData, cap) ==
  IF streamData = <<>> THEN [portion |-> portion, lines |-> <<>>]
  ELSE LET lines == split(streamData) IN
       IF Len(lines) > 1
         THEN [portion |-> cutSuffix(lines[Len(lines)], cap),
               lines |-> <<portion \o lines[1]>>
                           \o SubSeq(lines, 2, Len(lines) - 1)]
         ELSE LET currentPortion == cutSuffix(lines[1], cap) IN
              [portion |-> IF Len(portion) + Len(currentPortion) > cap
                             THEN currentPortion
                             ELSE portion \o currentPortion,
               lines |-> <<>>]

LinesIdle ==
  /\ lastLinePortion = <<>>
  /\ lineEvents = <<>>
  /\ streamContent = <<>>
  /\ chunkCount = 0
  /\ portionCap = MAX_LINE_PORTION_LENGTH
  /\ streamEnded = FALSE
  /\ stopFlushed = FALSE
  /\ streamClosed = FALSE

\* 292: start() has spawned the child and reset lastLinePortion
InitLines ==
  /\ Init /\ ~hasCwd
  /\ lastLinePortion = <<>>
  /\ lineEvents = <<>>
  /\ streamContent = <<>>
  /\ chunkCount = 0
  /\ portionCap \in PortionCaps
  /\ streamEnded = FALSE
  /\ stopFlushed = FALSE
  /\ streamClosed = FALSE

\* 349-355: a 'data' notification of the stream carrying chunk
HandleOutputLines(chunk) ==
  /\ ~streamEnded
  /\ Len(streamContent) + Len(chunk) <= MaxContent
  /\ LET r == handleStreamLines(lastLinePortion, chunk, portionCap)
     IN /\ lastLinePortion' = r.portion
        /\ lineEvents' = lineEvents \o r.lines
  /\ streamContent' = streamContent \o chunk
  /\ chunkCount' = chunkCount + 1
  /\ UNCHANGED <<portionCap, streamEnded, stopFlushed, streamClosed, lineRest>>

\* 359-360, 402-411: the child's 'exit': handleLastLines()
handleLastLines ==
  /\ ~streamEnded
  /\ lineEvents' = IF lastLinePortion # <<>>
                     THEN Append(lineEvents, lastLinePortion)
                     ELSE lineEvents
  /\ lastLinePortion' = <<>>
  /\ streamEnded' = TRUE
  /\ UNCHANGED <<streamContent, chunkCount, portionCap, stopFlushed,
                 streamClosed, lineRest>>

NextLines ==
  \/ \E chunk \in Chunks : HandleOutputLines(chunk)
  \/ handleLastLines

\* 418-419: stop() while the child runs: handleLastLines() before the kill
StopFlushesLines ==
  /\ ~streamEnded
  /\ lineEvents' = IF lastLinePortion # <<>>
                     THEN Append(lineEvents, lastLinePortion)
                     ELSE lineEvents
  /\ lastLinePortion' = <<>>
  /\ stopFlushed' = TRUE
  /\ UNCHANGED <<streamContent, chunkCount, portionCap, streamEnded,
                 streamClosed, lineRest>>

\* 349-355: a 'data' notification that comes after the child's 'exit': the
\* streams stay open, and their listeners in place, until they end
HandleOutputAfterExit(chunk) ==
  /\ streamEnded /\ ~streamClosed
  /\ Len(streamContent) + Len(chunk) <= MaxContent
  /\ LET r == handleStreamLines(lastLinePortion, chunk, portionCap)
     IN /\ lastLinePortion' = r.portion
        /\ lineEvents' = lineEvents \o r.lines
  /\ streamContent' = streamContent \o chunk
  /\ chunkCount' = chunkCount + 1
  /\ UNCHANGED <<portionCap, streamEnded, stopFlushed, streamClosed, lineRest>>

\* the stream ends after the child's exit; it has no listener here
StreamEnds ==
  /\ streamEnded /\ ~streamClosed
  /\ streamClosed' = TRUE
  /\ UNCHANGED <<lastLinePortion, lineEvents, streamContent, chunkCount,
                 portionCap, streamEnded, stopFlushed, lineRest>>

NextLinesExit ==
  \/ \E chunk \in Chunks : HandleOutputLines(chunk)
  \/ StopFlushesLines
  \/ handleLastLines
  \/ \E chunk \in Chunks : HandleOutputAfterExit(chunk)
  \/ StreamEnds

\* ===================================================== 'output' events
MaxOutputChunks == 3   \* 'data' notifications of one child
MaxOutputChunk == 2    \* largest chunk, in bytes

\* 201, 213: chunk.toString(encoding), or the chunk itself with isBuffer
Fragment(chunk) ==
  [type |-> IF isBuffer THEN "Buffer" ELSE "string", data |-> chunk]

\* 204, 210: Buffer.alloc(0) or ''
EmptyFragment ==
  [type |-> IF isBuffer THEN "Buffer" ELSE "string", data |-> <<>>]

\* 198-218: the argument the 'data' listener of a stream gives handleOutput
Streams(stream, chunk) ==
  [stdout |-> IF stream = "stdout" THEN Fragment(chunk) ELSE EmptyFragment,
   stderr |-> IF stream = "stderr" THEN Fragment(chunk) ELSE EmptyFragment]

\* 132: genericStartDetector; a Buffer is truthy, a string if not empty
Truthy(f) == f.type = "Buffer" \/ f.data # <<>>

genericStartDetector(streams) == Truthy(streams.stdout) \/ Truthy(streams.stderr)

OutputIdle ==
  /\ isBuffer = FALSE
  /\ detector = "null"
  /\ startPromise = [outcome |-> "pending", reason |-> "none",
                     delayT |-> "off", timeoutT |-> "off"]
  /\ delivered = <<>>
  /\ outputEvents = <<>>

\* 120-151, 238-246: start() has spawned the child and armed its timers
InitOutput ==
  /\ Init /\ ~hasCwd
  /\ isBuffer \in BOOLEAN
  /\ detector \in {"default", "function", "null"}
  /\ \E timed \in BOOLEAN :
       startPromise = [outcome |-> "pending", reason |-> "none",
                       delayT |-> IF detector = "null" THEN "armed" ELSE "off",
                       timeoutT |-> IF timed THEN "armed" ELSE "off"]
  /\ delivered = <<>>
  /\ outputEvents = <<>>

\* 153-169: handleOutput(streams); r is what a caller's predicate does.
\* The result is the detector, the promise and the 'output' events after.
handleOutputReturnsOnThrow(streams, r) ==
  LET fires == \/ detector = "default" /\ genericStartDetector(streams)
               \/ detector = "function" /\ r = "true"
      throws == detector = "function" /\ r = "throw"
  IN [detector |-> IF fires THEN "null" ELSE detector,
      promise |-> IF fires THEN Settle(startPromise, "resolved", "detector")
                  ELSE IF throws
                    THEN Settle(startPromise, "rejected", "detectorthrow")
                  ELSE startPromise,
      events |-> IF throws THEN outputEvents
                 ELSE Append(outputEvents, <<streams.stdout, streams.stderr>>)]

handleOutput(streams, r) ==
  LET fires == \/ detector = "default" /\ genericStartDetector(streams)
               \/ detector = "function" /\ r = "true"
      throws == detector = "function" /\ r = "throw"
  IN [detector |-> IF fires THEN "null" ELSE detector,
      promise |-> IF fires THEN Settle(startPromise, "resolved", "detector")
                  ELSE IF throws
                    THEN Settle(startPromise, "rejected", "detectorthrow")
                  ELSE startPromise,
      events |-> Append(outputEvents, <<streams.stdout, streams.stderr>>)]

\* 198-218: a 'data' notification of stdout or stderr with a chunk of n bytes
OutputData(stream, n, r) ==
  /\ Len(delivered) < MaxOutputChunks
  /\ detector # "function" => r = "false"
  /\ LET chunk == [i \in 1..n |-> i]
         h == handleOutput(Streams(stream, chunk), r)
     IN /\ detector' = h.detector
        /\ startPromise' = h.promise
        /\ outputEvents' = h.events
        /\ delivered' = Append(delivered, [stream |-> stream, chunk |-> chunk])
  /\ UNCHANGED <<isBuffer, outputRest>>

\* 238-240: the start delay elapses
OutputStartDelayFires ==
  /\ startPromise.delayT = "armed"
  /\ startPromise' = Settle([startPromise EXCEPT !.delayT = "off"],
                            "resolved", "delay")
  /\ UNCHANGED <<isBuffer, detector, delivered, outputEvents, outputRest>>

\* 242-246: the start timeout elapses
OutputStartTimeoutFires ==
  /\ startPromise.timeoutT = "armed"
  /\ startPromise' = Settle([startPromise EXCEPT !.timeoutT = "off"],
                            "rejected", "timeout")
  /\ UNCHANGED <<isBuffer, detector, delivered, outputEvents, outputRest>>

NextOutput ==
  \/ \E stream \in StreamNames, n \in 1..MaxOutputChunk, r \in DetectorResults :
       OutputData(stream, n, r)
  \/ OutputStartDelayFires
  \/ OutputStartTimeoutFires

\* ================================================== the specifications
\* Each specification starts one component; the others are not in use.
InitOfSubProcess ==
  Init /\ BufferIdle /\ ExecIdle /\ LinesIdle /\ OutputIdle

InitOfBuffer == InitBuffer /\ ExecIdle /\ LinesIdle /\ OutputIdle

InitOfExec == InitExec /\ LinesIdle /\ OutputIdle

InitOfLines == InitLines /\ BufferIdle /\ ExecIdle /\ OutputIdle

InitOfOutput == InitOutput /\ BufferIdle /\ ExecIdle /\ LinesIdle

\* The SubProcess controller.
Spec == InitOfSubProcess /\ [][Next]_allVars

\* One CircularBuffer.
SpecBuffer == InitOfBuffer /\ [][NextBuffer]_allVars

\* One call of exec.
SpecExec == InitOfExec /\ [][NextExec]_allVars

\* One output stream of a SubProcess that reassembles lines.
SpecLines == InitOfLines /\ [][NextLines]_allVars

\* The same stream with the orderings of stop(), the child's exit and the
\* end of the stream.
SpecLinesExit == InitOfLines /\ [][NextLinesExit]_allVars

\* The 'output' events of one start() call.
SpecOutput == InitOfOutput /\ [][NextOutput]_allVars

\* ====================================================== the claims

\* the step in which Node's 'exit' notification of child c is processed by
\* the controller's own listener
TerminationProcessed(c) ==
  /\ child[c].st = "alive"
  /\ child'[c].st = "exited"
  /\ \E k \in DOMAIN child[c].exitL : child[c].exitL[k] = CtlListener

Classified == {"stop", "end", "die"}

\* C1: for every termination notification the controller processes it
\* emits exit(code, signal) first and then exactly one of stop/end/die with
\* the same (code, signal); lifecycle events are emitted in no other step
\* and in no other shape.
C1_ExitThenOneClassified ==
  [][/\ \A c \in Children : TerminationProcessed(c) =>
          /\ Len(emitted') = 2
          /\ emitted'[1].child = c
     /\ emitted' # <<>> =>
          /\ Len(emitted') = 2
          /\ emitted'[1].name = "exit"
          /\ emitted'[2].name \in Classified
          /\ emitted'[2].child = emitted'[1].child
          /\ emitted'[2].code = emitted'[1].code
          /\ emitted'[2].signal = emitted'[1].signal
          /\ <<emitted'[1].code, emitted'[1].signal>> \in ExitPairs
          /\ TerminationProcessed(emitted'[1].child)]_vars

C1_Witness ==
  /\ Len(emitted) = 2
  /\ emitted[2].name = "stop"
  /\ emitted[2].signal = "SIGTERM"

\* C2: the classified event is stop iff expectingExit was true when the
\* termination was processed; otherwise end iff the code is 0; otherwise
\* die (non-zero code, or the null code of a signal-killed child).
C2_ClassificationByExpectingAndCode ==
  [][emitted' # <<>> =>
       /\ (emitted'[2].name = "stop") <=> expectingExit
       /\ (emitted'[2].name = "end") <=>
            (~expectingExit /\ emitted'[2].code = Code(0))
       /\ (emitted'[2].name = "die") <=>
            (~expectingExit /\ emitted'[2].code # Code(0))]_vars

C2_Witness ==
  /\ Len(emitted) = 2
  /\ emitted[2].name = "die"
  /\ emitted[2].code = NullCode

\* C3: every spawned child that is alive with its termination unprocessed
\* is the one the handle references.
C3_LiveChildIsTheHandle ==
  \A c \in Children : child[c].st = "alive" => proc = c

\* C4: expectingExit is true only if a stop() call has sent its signal to
\* the child currently held and that child's termination has not been
\* processed; never while the handle is absent.
C4_ExpectingExitOnlyWhileStopping ==
  expectingExit =>
    /\ proc # NoProc
    /\ child[proc].kills \cap StopSignals # {}
    /\ child[proc].st \in {"alive", "spawnfail"}

\* C5: immediately after a termination notification has been processed the
\* handle is absent (isRunning false, pid null) and expectingExit is false.
C5_HandleClearedAfterTermination ==
  emitted # <<>> =>
    /\ proc = NoProc
    /\ ~isRunning
    /\ pid = NoProc
    /\ ~expectingExit

C5_Witness ==
  /\ Len(emitted) = 2
  /\ emitted[2].name = "stop"
  /\ proc = NoProc

\* C6: once a start() call has resolved or rejected, no later step changes
\* its outcome or the reason of it.
C6_StartSettlesAtMostOnce ==
  [][\A c \in Children :
       startCall[c].outcome \in {"resolved", "rejected"} =>
         /\ startCall'[c].outcome = startCall[c].outcome
         /\ startCall'[c].reason = startCall[c].reason]_vars

\* a start() rejected by its detector's exception, whose detector was
\* satisfied by a later fragment (a resolve() without effect) before the
\* child closed
C6_Witness ==
  \E c \in Children :
    /\ startCall[c].outcome = "rejected"
    /\ startCall[c].reason = "detectorthrow"
    /\ ~startCall[c].active
    /\ child[c].st = "closed"

\* C7: every start() call that spawned a child settles: once nothing can
\* happen for the call any more (child closed, no timer armed, 'error'
\* listener finished) it is no longer pending.
C7_StartSettlesEventually ==
  \A c \in Children :
    ( /\ child[c].st = "closed"
      /\ startCall[c].delayT = "off"
      /\ startCall[c].timeoutT = "off"
      /\ errh[c] = "idle" )
    => startCall[c].outcome # "pending"

\* the step in which the 'error' listener of child c finishes
ErrorProcessed(c) ==
  \/ child[c].st = "spawnfail" /\ child'[c].st = "failed" /\ errh'[c] = "idle"
  \/ errh[c] = "awaiting" /\ errh'[c] = "idle"

\* C8: when the child fails to spawn, start() rejects, no exit/stop/end/die
\* is emitted for it, and once the error has been processed the handle is
\* absent.
C8_SpawnFailureRejectsAndClears ==
  [][\A c \in Children :
       /\ ErrorProcessed(c) =>
            /\ startCall'[c].outcome = "rejected"
            /\ proc' = NoProc
            /\ ~isRunning'
       /\ (child'[c].st = "failed" /\ emitted' # <<>>) =>
            emitted'[1].child # c]_vars

\* C9: for a child that fails to spawn, start(n) with a numeric delay never
\* resolves.
C9_NumericStartOfBadCommandNeverResolves ==
  \A c \in Children :
    (startCall[c].det = "number" /\ child[c].st \in {"spawnfail", "failed"})
      => startCall[c].outcome # "resolved"

\* the step in which the start timeout of child c's start() call fires
StartTimeoutElapses(c) ==
  startCall[c].timeoutT = "armed" /\ startCall'[c].timeoutT = "off"

\* a step that processes a termination or finishes an 'error' listener
NotificationProcessed ==
  \E d \in Children :
    \/ child[d].st = "alive" /\ child'[d].st = "exited"
    \/ ErrorProcessed(d)

DetectorThrows(c) ==
  /\ startCall[c].det = "function"
  /\ startCall[c].active
  /\ \E stream \in {"stdout", "stderr"} : StreamData(c, stream, "throw")

\* C11: if the start-detector predicate throws on an output fragment while
\* start() is pending, start() rejects with the thrown error, and the step
\* leaves the child running: the handle, expectingExit and the child (its
\* state, its listeners, the signals sent to it) are as before.
C11_DetectorThrowRejectsAndLeavesChild ==
  [][\A c \in Children :
       (DetectorThrows(c) /\ startCall[c].outcome = "pending") =>
         /\ startCall'[c].outcome = "rejected"
         /\ startCall'[c].reason = "detectorthrow"
         /\ proc' = proc
         /\ expectingExit' = expectingExit
         /\ child' = child]_vars

\* a start() rejected by its predicate's exception whose child is alive,
\* held and unsignalled, and whose predicate is still installed
C11_Witness ==
  \E c \in Children :
    /\ startCall[c].outcome = "rejected"
    /\ startCall[c].reason = "detectorthrow"
    /\ startCall[c].active
    /\ child[c].st = "alive"
    /\ child[c].kills = {}
    /\ proc = c

\* C12: with no detector given, start() does not stay pending once the
\* child has delivered an output fragment (on stdout or on stderr), it is
\* resolved by nothing but output, and whenever it is resolved the 'output'
\* event of the resolving fragment has been emitted.
C12_DefaultStartResolvesOnFirstOutput ==
  \A c \in Children :
    startCall[c].det = "default" =>
      /\ hadOutput[c] => startCall[c].outcome # "pending"
      /\ startCall[c].outcome = "resolved" =>
           /\ startCall[c].reason = "detector"
           /\ hadOutput[c]

C12_Witness ==
  \E c \in Children :
    /\ startCall[c].det = "default"
    /\ startCall[c].outcome = "resolved"
    /\ hadOutput[c]
    /\ child[c].st = "alive"

\* the step in which child c delivers an output fragment
OutputDelivered(c) ==
  \E stream \in {"stdout", "stderr"}, r \in DetectorResults :
    StreamData(c, stream, r)

\* C13: with a numeric start detector an output fragment leaves the start()
\* call as it is, and a pending start() becomes resolved only in the step
\* in which its delay timer fires.
C13_NumericStartResolvesOnlyByDelay ==
  [][\A c \in Children :
       startCall[c].det = "number" =>
         /\ OutputDelivered(c) => startCall'[c] = startCall[c]
         /\ (startCall[c].outcome = "pending"
               /\ startCall'[c].outcome = "resolved") =>
              /\ startCall[c].delayT = "armed"
              /\ startCall'[c].delayT = "off"
              /\ startCall'[c].reason = "delay"]_vars

\* a start(n) resolved by its delay before its running child emitted any
\* output
C13_Witness ==
  \E c \in Children :
    /\ startCall[c].det = "number"
    /\ startCall[c].outcome = "resolved"
    /\ startCall[c].reason = "delay"
    /\ ~hadOutput[c]
    /\ child[c].st = "alive"

\* the step in which the pending stop() call in slot i resolves
StopResolves(i) ==
  stops[i].outcome = "pending" /\ stops'[i].outcome = "resolved"

\* C14: stop() resolves only after the termination of the child it
\* signalled has been processed (so that exit and stop have been emitted
\* for it), and when it resolves the handle no longer references that child.
C14_StopResolvesAfterTermination ==
  [][\A i \in 1..MaxCalls :
       StopResolves(i) =>
         /\ child[stops[i].target].st = "exited"
         /\ proc' # stops[i].target]_vars

\* the step in which the timer of the pending stop() call in slot i fires
StopTimesOut(i) ==
  stops[i].outcome = "pending" /\ stops'[i].outcome = "free"

\* C15: when the timer of a pending stop() fires, stop() rejects with the
\* stop-timeout error; at that moment the call's signal has been sent, a
\* handle is present, and the child's termination has not been processed
\* (no exit/stop event emitted for it).
C15_StopTimeoutLeavesChildRunning ==
  [][\A i \in 1..MaxCalls :
       StopTimesOut(i) =>
         /\ settled' = <<Settlement("stop", stops[i].target, "rejected",
                                    "timeout", NullCode)>>
         /\ stops[i].sig \in child[stops[i].target].kills
         /\ isRunning
         /\ child[stops[i].target].st = "alive"]_vars

\* the step is a stop() or a join() call
StopOrJoinCalled ==
  \/ \E i \in 1..MaxCalls, sig \in StopSignals : Stop(i, sig)
  \/ \E j \in 1..MaxCalls, allowed \in AllowedSets : Join(j, allowed)

\* C16: a stop() or join() call made while no handle is present fails with
\* NotRunning and leaves the handle, expectingExit, the children (signals,
\* listeners) and the pending calls as they are; a call is rejected with
\* NotRunning in no other case.
C16_NotRunningCallsChangeNothing ==
  [][/\ (StopOrJoinCalled /\ ~isRunning) =>
          /\ Len(settled') = 1
          /\ settled'[1].outcome = "rejected"
          /\ settled'[1].reason = "notrunning"
          /\ proc' = proc
          /\ expectingExit' = expectingExit
          /\ child' = child
          /\ stops' = stops
          /\ joins' = joins
     /\ \A k \in DOMAIN settled' :
          settled'[k].reason = "notrunning" =>
            StopOrJoinCalled /\ ~isRunning]_vars

\* a stop() rejected with NotRunning after the only child's termination
\* has been processed
C16_Witness ==
  /\ settled = <<Settlement("stop", NoProc, "rejected", "notrunning",
                            NullCode)>>
  /\ child[1].st = "exited"
  /\ \A c \in Children : c # 1 => child[c].st = "unspawned"

\* C17: join() on a controller whose child has exited is not rejected with
\* NotRunning.
C17_JoinAfterExitIsValid ==
  \A k \in DOMAIN settled :
    (settled[k].call = "join" /\ settled[k].reason = "notrunning") =>
      \A c \in Children : child[c].st # "exited"

\* C18: when a child exits with an integer code, each join() call pending
\* on it settles in that step: it resolves with the code if the code is a
\* member of the call's allowed codes, and rejects with the exit-code error
\* carrying the code otherwise.
C18_JoinSettlesByAllowedCodes ==
  [][\A c \in Children, p \in ExitPairs :
       (ProcExit(c, p[1], p[2]) /\ p[1] # NullCode) =>
         \A j \in 1..MaxCalls :
           (joins[j].outcome = "pending" /\ joins[j].target = c) =>
             /\ joins'[j].outcome = "free"
             /\ \E k \in DOMAIN settled' :
                  settled'[k] =
                    IF p[1][1] \in joins[j].allowed
                      THEN Settlement("join", c, "resolved", "exit", p[1])
                      ELSE Settlement("join", c, "rejected", "exitcode",
                                      p[1])]_vars

\* C19: a join() call that settles on a termination with the null exit code
\* (child ended by a signal) rejects.
C19_JoinRejectsOnNullCode ==
  \A k \in DOMAIN settled :
    (settled[k].call = "join" /\ settled[k].reason # "notrunning"
       /\ settled[k].code = NullCode) =>
      settled[k].outcome = "rejected"

\* C20: in the step in which a join() call settles because of a
\* termination, the controller's own listener runs first: exit and the
\* classified event are emitted for the terminated child and isRunning is
\* false afterwards.
C20_JoinSettlesAfterLifecycleEvents ==
  [][\A k \in DOMAIN settled' :
       (settled'[k].call = "join"
          /\ settled'[k].reason \in {"exit", "exitcode"}) =>
         /\ Len(emitted') = 2
         /\ emitted'[1].name = "exit"
         /\ emitted'[1].child = settled'[k].target
         /\ emitted'[2].name \in Classified
         /\ child[settled'[k].target].exitL[1] = CtlListener
         /\ ~isRunning']_vars

\* ------------------------------------------------ lib/circular-buffer.ts

\* C26: after each add the accumulator satisfies size <= maxSize, or it
\* holds exactly one chunk, which is larger than maxSize.
C26_SizeWithinMaxOrSingleOversized ==
  adds > 0 =>
    \/ size(buffer) <= buffer.maxSize
    \/ count(buffer) = 1 /\ Len(buffer.buf[1]) > buffer.maxSize

\* more than maxSize bytes were added and several chunks are retained
C26_Witness ==
  /\ adds >= 2
  /\ Len(written) > buffer.maxSize
  /\ count(buffer) >= 2
  /\ buffer.maxSize >= 7

RECURSIVE SumOfLengths(_)
SumOfLengths(chunks) ==
  IF chunks = <<>> THEN 0 ELSE Len(Head(chunks)) + SumOfLengths(Tail(chunks))

\* C27: after every add, size equals the sum of the lengths of the retained
\* chunks (the length of value()) and count equals their number.
C27_SizeIsSumOfRetainedChunks ==
  /\ size(buffer) = SumOfLengths(buffer.buf)
  /\ size(buffer) = Len(value(buffer))
  /\ count(buffer) = Cardinality(DOMAIN buffer.buf)

\* chunks were evicted whole and the chunk left was sliced
C27_Witness ==
  /\ adds >= 2
  /\ count(buffer) = 1
  /\ 0 < size(buffer)
  /\ size(buffer) < Len(written) - MaxChunk

\* the last n bytes of sequence s
LastBytes(s, n) == SubSeq(s, Len(s) - n + 1, Len(s))

\* C28: after any non-empty sequence of adds, count >= 1 and value() is the
\* last size bytes of everything ever added, in order; with a positive
\* maxSize it is not empty once a byte has been added, so that it ends with
\* the most recently added byte.
C28_ValueIsSuffixOfAllAdded ==
  adds > 0 =>
    /\ count(buffer) >= 1
    /\ value(buffer) = LastBytes(written, size(buffer))
    /\ (buffer.maxSize > 0 /\ written # <<>>) =>
         /\ value(buffer) # <<>>
         /\ value(buffer)[Len(value(buffer))] = written[Len(written)]

\* a single chunk larger than maxSize was added and sliced
C28_Witness ==
  /\ adds = 1
  /\ 0 < size(buffer)
  /\ size(buffer) < Len(written)

\* test/circular-buffer-specs.ts 8-36: cap 100, 100 bytes and then 100 (or
\* 110) bytes leave exactly the last 85 bytes of the second chunk
RotateExample ==
  LET first == add(CircularBuffer(100), [i \in 1..100 |-> i])
      same == add(first, [i \in 1..100 |-> 100 + i])
      larger == add(first, [i \in 1..110 |-> 100 + i])
  IN /\ count(first) = 1 /\ size(first) = 100
     /\ count(same) = 1 /\ size(same) = 85
     /\ value(same) = [i \in 1..85 |-> 115 + i]
     /\ count(larger) = 1 /\ size(larger) = 85
     /\ value(larger) = [i \in 1..85 |-> 125 + i]

\* C29: when an add pushes the total over maxSize and the older chunks
\* together are smaller than the eviction target (total - maxSize +
\* floor(0.15 * maxSize)), afterwards a single chunk remains: the last
\* maxSize - floor(0.15 * maxSize) bytes of the chunk added.
C29_OversizedChunkIsSlicedToTarget ==
  [][LET n == Len(written') - Len(written)
         total == size(buffer) + n
         kept == buffer.maxSize - (buffer.maxSize * 15) \div 100
     IN /\ (adds' = adds + 1 /\ total > buffer.maxSize
              /\ size(buffer) < total - kept) =>
             /\ count(buffer') = 1
             /\ size(buffer') = kept
             /\ value(buffer') = LastBytes(written', kept)
        /\ RotateExample]_allVars

\* two adds of more than 2 * maxSize bytes in all, with a maxSize for which
\* the threshold is not zero, left the target size
C29_Witness ==
  /\ adds = 2
  /\ buffer.maxSize >= 7
  /\ Len(written) > 2 * buffer.maxSize
  /\ count(buffer) = 1
  /\ size(buffer) = buffer.maxSize - (buffer.maxSize * 15) \div 100


\* the chunk an add() step has added
AddedChunk == SubSeq(written', Len(written) + 1, Len(written'))

\* Math.trunc(maxSize * THRESHOLD), the headroom an eviction leaves
Headroom == (buffer.maxSize * 15) \div 100

\* C33: an add() that leaves the total at or below maxSize evicts nothing:
\* count grows by one, size by the chunk's length, and value() is the
\* previous value() followed by the chunk.
C33_AddWithinMaxEvictsNothing ==
  [][(adds' = adds + 1 /\ size(buffer) + Len(AddedChunk) <= buffer.maxSize) =>
       /\ count(buffer') = count(buffer) + 1
       /\ size(buffer') = size(buffer) + Len(AddedChunk)
       /\ value(buffer') = value(buffer) \o AddedChunk
       /\ buffer'.buf = Append(buffer.buf, AddedChunk)]_allVars

\* three chunks are held and none has been evicted
C33_Witness ==
  /\ adds = 3
  /\ count(buffer) = 3
  /\ ~sinceEviction.evicted
  /\ size(buffer) = Len(written)
  /\ size(buffer) > 3

\* C34: right after an add() that evicted, size is at most maxSize less
\* trunc(0.15 * maxSize); and the adds that follow an eviction evict
\* nothing while they total at most trunc(0.15 * maxSize) bytes.
C34_EvictionLeavesHeadroom ==
  [][adds' = adds + 1 =>
       /\ size(buffer) + Len(AddedChunk) > buffer.maxSize
            => size(buffer') <= buffer.maxSize - Headroom
       /\ (sinceEviction.evicted
             /\ sinceEviction.bytes + Len(AddedChunk) <= Headroom)
            => /\ value(buffer') = value(buffer) \o AddedChunk
               /\ count(buffer') = count(buffer) + 1]_allVars

\* after an eviction, an add of at least one byte has fitted in the
\* headroom
C34_Witness ==
  /\ sinceEviction.evicted
  /\ sinceEviction.bytes > 0
  /\ sinceEviction.bytes <= Headroom
  /\ count(buffer) >= 2

\* ---------------------------------------------------------------- exec
\* the step is the 'close' listener's
CloseStep == execProc.st # "closed" /\ execProc'.st = "closed"

\* the step is the timeout timer's callback
TimeoutStep == timer = "armed" /\ timer' = "fired"

\* what the settled call reports for stream s
Reported(s) == IF s = "stdout" THEN execPromise.stdout ELSE execPromise.stderr

MaxBufferSize(s) ==
  IF s = "stdout" THEN opts.maxStdoutBufferSize ELSE opts.maxStderrBufferSize

\* C21: exec resolves, with the collected stdout and stderr and code 0,
\* exactly in the 'close' listener of a close that carries code 0 while the
\* call is still pending; a close with any other code rejects the pending
\* call with an error that carries the collected stdout, stderr and that
\* code.
C21_CloseSettlesByExitCode ==
  [][/\ (execPromise.outcome # "resolved" /\ execPromise'.outcome = "resolved")
          <=> (CloseStep /\ execProc.code = Code(0)
                 /\ execPromise.outcome = "pending")
     /\ (CloseStep /\ execPromise.outcome = "pending") =>
          /\ execPromise'.outcome =
               IF execProc.code = Code(0) THEN "resolved" ELSE "rejected"
          /\ execPromise'.fields
          /\ execPromise'.stdout = value(stdio["stdout"])
          /\ execPromise'.stderr = value(stdio["stderr"])
          /\ execPromise'.code = execProc.code]_allVars

\* a close with code 1 has rejected the call with output collected on both
\* streams
C21_Witness ==
  /\ execPromise.outcome = "rejected"
  /\ execPromise.reason = "close"
  /\ execPromise.code = Code(1)
  /\ execPromise.stdout # <<>>
  /\ execPromise.stderr # <<>>

\* C22 as stated: when the timer fires before 'close' (and nothing has
\* rejected the call before), the call is rejected with an error carrying
\* the stdout and stderr collected so far and code null, and the configured
\* kill signal has been sent to the child.
C22_TimeoutRejectsAndSignals ==
  [][(TimeoutStep /\ execPromise.outcome = "pending") =>
       /\ execPromise'.outcome = "rejected"
       /\ execPromise'.fields
       /\ execPromise'.stdout = value(stdio["stdout"])
       /\ execPromise'.stderr = value(stdio["stderr"])
       /\ execPromise'.code = NullCode
       /\ signalled' = Append(signalled, opts.killSignal)]_allVars

\* C22, amended: when the timer fires before 'close' and nothing has
\* rejected the call before, the call is rejected with an error carrying
\* the stdout and stderr collected so far and code null; the configured
\* kill signal has been sent by then if the child had not terminated yet,
\* and no signal is sent otherwise.
C22_PendingTimeoutRejectsAndSignalsLiveChild ==
  [][TimeoutStep =>
       /\ execPromise.outcome = "pending" =>
            /\ execPromise'.outcome = "rejected"
            /\ execPromise'.reason = "timeout"
            /\ execPromise'.fields
            /\ execPromise'.stdout = value(stdio["stdout"])
            /\ execPromise'.stderr = value(stdio["stderr"])
            /\ execPromise'.code = NullCode
       /\ execPromise.outcome # "pending" => execPromise' = execPromise
       /\ signalled' = IF execProc.st = "spawned"
                         THEN Append(signalled, opts.killSignal)
                         ELSE signalled]_allVars

\* the timeout has rejected the call with output collected so far and the
\* signal the caller configured has been sent
C22_Witness ==
  /\ execPromise.outcome = "rejected"
  /\ execPromise.reason = "timeout"
  /\ execPromise.stdout # <<>>
  /\ opts.killSignal = "SIGINT"
  /\ signalled = <<"SIGINT">>

\* C23: every rejection of exec carries stdout and stderr.
C23_EveryRejectionCarriesOutput ==
  execPromise.outcome = "rejected" => execPromise.fields

\* C24: when the spawn fails with ENOENT, exec rejects with the
\* command-not-found error of formatEnoent.
C24_EnoentRejectsWithNotFound ==
  (spawnResult = "ENOENT" /\ execPromise.outcome = "rejected")
    => execPromise.reason = "notfound"

LinesAtOnce(content) ==
  LET l == split(content)
  IN IF l[Len(l)] = <<>> THEN SubSeq(l, 1, Len(l) - 1) ELSE l

\* every line of the content is shorter than the cap on lastLinePortion
LinesShorterThanCap ==
  \A i \in DOMAIN split(streamContent) :
    Len(split(streamContent)[i]) < portionCap

\* C30: when every line is shorter than the cap, then however the content
\* was cut into chunks, the lines emitted followed by the unfinished line
\* held back are the content split on the terminator, and after the final
\* flush the lines emitted are the lines of the whole content split at once.
C30_LinesIndependentOfChunking ==
  LinesShorterThanCap =>
    /\ ~streamEnded =>
         Append(lineEvents, lastLinePortion) = split(streamContent)
    /\ streamEnded =>
         /\ lineEvents = LinesAtOnce(streamContent)
         /\ lastLinePortion = <<>>

\* "ab\na" has arrived one character at a time and has been flushed
C30_Witness ==
  /\ streamEnded
  /\ chunkCount = 4
  /\ streamContent = <<"a", "b", NL, "a">>
  /\ lineEvents = <<<<"a", "b">>, <<"a">>>>

\* the characters of a string that are not line terminators
RECURSIVE WithoutNL(_)
WithoutNL(str) ==
  IF str = <<>> THEN <<>>
  ELSE IF Head(str) = NL THEN WithoutNL(Tail(str))
       ELSE <<Head(str)>> \o WithoutNL(Tail(str))

\* C31: once the exit has been processed and the stream has delivered all
\* its data, the residue is empty and, lines being shorter than the cap,
\* the lines emitted hold every character received, in order.
C31_ExitFlushEmitsEverything ==
  (streamEnded /\ streamClosed) =>
    /\ lastLinePortion = <<>>
    /\ LinesShorterThanCap => concat(lineEvents) = WithoutNL(streamContent)

\* the unterminated data received since the last line terminator
RECURSIVE Unterminated(_)
Unterminated(str) ==
  IF str = <<>> \/ str[Len(str)] = NL THEN <<>>
  ELSE Append(Unterminated(SubSeq(str, 1, Len(str) - 1)), str[Len(str)])

\* C35: the residue is never longer than the cap and is the end of the
\* unterminated data received since the last line terminator; it is all of
\* that data when that fits the cap and nothing has flushed the residue.
C35_ResidueIsBoundedSuffix ==
  LET tail == Unterminated(streamContent)
  IN /\ Len(lastLinePortion) <= portionCap
     /\ Len(lastLinePortion) <= Len(tail)
     /\ lastLinePortion = LastBytes(tail, Len(lastLinePortion))
     /\ (~streamEnded /\ ~stopFlushed /\ Len(tail) <= portionCap)
          => lastLinePortion = tail

\* unterminated data longer than the cap has arrived in two chunks and the
\* residue is its end
C35_Witness ==
  /\ chunkCount = 2
  /\ portionCap = 3
  /\ Len(Unterminated(streamContent)) = 5
  /\ lastLinePortion # <<>>
  /\ lastLinePortion # Unterminated(streamContent)

\* the step is the proc 'error' listener's start
SpawnErrorStep == execProc.st = "spawnfail" /\ execProc'.st = "errored"

\* C39: a settled call never changes, and the first of close, timeout,
\* spawn error and stream error to occur while the call is pending settles
\* it with its own outcome.
C39_FirstOccurrenceSettlesForGood ==
  [][/\ execPromise.outcome # "pending" => execPromise' = execPromise
     /\ execPromise.outcome = "pending" =>
          /\ CloseStep => (execPromise'.outcome # "pending"
                             /\ execPromise'.reason = "close")
          /\ TimeoutStep => (execPromise'.outcome = "rejected"
                               /\ execPromise'.reason = "timeout")
          /\ SpawnErrorStep =>
               (execPromise'.outcome = "rejected"
                  /\ execPromise'.reason \in {"spawnerror", "notfound"})
          /\ \A s \in StreamNames \cup {"stdin"} :
               ExecStreamError(s) => (execPromise'.outcome = "rejected"
                                        /\ execPromise'.reason = s)]_allVars

\* C40: at most one signal is sent, and only by the timer of a call with a
\* timeout, firing before 'close' is observed; 'close' cancels the timer
\* and no signal is sent once it has been observed.
C40_KillOnlyByTimeoutBeforeClose ==
  [][/\ Len(signalled') <= 1
     /\ signalled' # signalled =>
          /\ TimeoutStep
          /\ opts.timeout
          /\ execProc.st # "closed"
          /\ signalled' = <<opts.killSignal>>
     /\ CloseStep => timer' # "armed"
     /\ execProc.st = "closed" => (timer # "armed" /\ signalled' = signalled)
     /\ ~opts.timeout => (timer' = "none" /\ signalled' = <<>>)]_allVars

\* the timer has fired and sent the signal, and 'close' has been observed
\* afterwards
C40_Witness ==
  /\ signalled = <<opts.killSignal>>
  /\ timer = "fired"
  /\ execProc.st = "closed"

\* ------------------------------------------------------ 'output' events
\* the 'output' event a 'data' notification d is to produce
OutputFor(d) ==
  IF d.stream = "stdout" THEN <<Fragment(d.chunk), EmptyFragment>>
  ELSE <<EmptyFragment, Fragment(d.chunk)>>

\* C32: every 'data' notification of stdout or stderr has produced exactly
\* one 'output' event, in order, with the fragment for its own stream and an
\* empty value for the other, whatever the detector and the start() promise
\* have come to.
C32_OneOutputEventPerChunk ==
  /\ Len(outputEvents) = Len(delivered)
  /\ \A i \in DOMAIN delivered : outputEvents[i] = OutputFor(delivered[i])

\* a caller's predicate has thrown on the first chunk, start() is rejected,
\* and three chunks have been delivered on the two streams
C32_Witness ==
  /\ startPromise.outcome = "rejected"
  /\ startPromise.reason = "detectorthrow"
  /\ Len(delivered) = 3
  /\ Len(outputEvents) = 3
  /\ delivered[1].stream # delivered[3].stream

\* ------------------------------------------- reuse of the controller
\* C36: a 'stop' event is emitted for a child's termination only if a
\* stop() call has sent a signal to that same child before; a child no
\* stop() has signalled is classified 'end' or 'die'.
C36_StopEventOnlyForStoppedChild ==
  \A k \in DOMAIN emitted :
    emitted[k].name = "stop" =>
      child[emitted[k].child].kills \cap StopSignals # {}

\* C37: every join() call accepted while a handle is present settles once
\* its child has terminated or reported an error: when nothing can happen
\* for that child any more (closed, 'error' listener finished) no join()
\* on it is still pending.
C37_JoinSettlesOnceChildIsDone ==
  \A j \in 1..MaxCalls :
    joins[j].outcome = "pending" =>
      ~ ( /\ child[joins[j].target].st = "closed"
          /\ errh[joins[j].target] = "idle" )

\* ------------------------------------------------ events after stop()
\* a stop() call on child c has resolved
StopResolvedFor(c) ==
  \E i \in 1..MaxCalls :
    stops[i].outcome = "resolved" /\ stops[i].target = c

\* a step that delivers a chunk of child c's output ('output' and the
\* line events of that chunk)
OutputStep(c) ==
  \E stream \in {"stdout", "stderr"}, r \in DetectorResults :
    StreamData(c, stream, r)

\* a step that emits exit/stop/end/die for child c
LifecycleStep(c) ==
  \E k \in DOMAIN emitted' : emitted'[k].child = c

\* C38: after a stop() call has resolved, no further output, line or
\* lifecycle event is emitted for that child: stop() resolves with the
\* child's 'close', a closed child stays closed, and no step delivers
\* output or emits exit/stop/end/die for a closed child.
C38_NoEventAfterStopResolved ==
  [][\A c \in Children :
       /\ StopResolvedFor(c)' => child'[c].st = "closed"
       /\ child[c].st = "closed" =>
            /\ child'[c].st = "closed"
            /\ ~OutputStep(c)
            /\ ~LifecycleStep(c)]_allVars

\* stop() has resolved for the first child, which had produced output, and
\* the controller has been reused: the second child is alive and has
\* produced output after that
C38_Witness ==
  /\ StopResolvedFor(1)
  /\ hadOutput[1]
  /\ child[1].st = "closed"
  /\ child[1].kills \cap StopSignals # {}
  /\ proc = 2
  /\ child[2].st = "alive"
  /\ hadOutput[2]

====
